---- MODULE Spec2Model ----
(***************************************************************************)
(* Model of src/windows/win32_display.h: the Win32 display layer of the    *)
(* CUDA demos.  A Win32Display record holds the window handles, the        *)
(* off-screen surface, the close flag, the mouse state and a ring buffer   *)
(* of 64 Win32Event slots.  The window procedure translates the platform   *)
(* messages of the thread's message queue into events of the session the   *)
(* global g_display points to; the application pumps the message queue     *)
(* with win32_process_events and pulls the events with win32_pop_event.    *)
(***************************************************************************)
EXTENDS Integers, Sequences, FiniteSets, TLC

NULL == 0

\* ------------------------------------------------------------------------
\* Bounds of the model
\* ------------------------------------------------------------------------
\* sessions ever allocated in one run
MaxSessions == 2
\* sessions created one after the other in one run of Spec and SpecErrors
MaxCreates == 1
\* messages posted to the thread's message queue in one run of Spec, and
\* notifications of one run of SpecMulti and SpecScenario
MaxPosts == 2
\* notifications dispatched to the window procedure in one run of SpecQueue
MaxNotifs == 65
\* key messages at the start of a run of SpecQueue that opens with held keys
KeyRepeats == 62

\* ------------------------------------------------------------------------
\* Program constants
\* ------------------------------------------------------------------------
\* Win32Event events[64]; the indices are taken % 64
QueueSlots == 64

Button1 == 1
Button2 == 2
Button3 == 3

WIN32_EVENT_NONE == 0
WIN32_EVENT_KEY_PRESS == 1
WIN32_EVENT_KEY_RELEASE == 2
WIN32_EVENT_MOUSE_PRESS == 3
WIN32_EVENT_MOUSE_RELEASE == 4
WIN32_EVENT_MOUSE_MOVE == 5
WIN32_EVENT_CLOSE == 6
WIN32_EVENT_RESIZE == 7

\* ------------------------------------------------------------------------
\* Integer conversions of the window procedure
\* ------------------------------------------------------------------------
\* LOWORD(lParam): the low 16 bits, unsigned
LOWORD(l) == l % 65536

\* HIWORD(lParam): bits 16..31, unsigned
HIWORD(l) == (l \div 65536) % 65536

\* (int)wParam: the low 32 bits of wParam read as a two's complement int
\* (written without 2^32, for wParam below 2^32)
ToInt(w) == IF w <= 2147483647 THEN w ELSE ((w - 2147483647) - 2147483647) - 2

\* MAKELPARAM(x, y), how the platform packs a client position
MAKELPARAM(x, y) == (x % 65536) + 65536 * (y % 65536)

\* mouseButtons |= bit   (bit is 1, 2 or 4)
OrBit(m, bit) == IF (m \div bit) % 2 = 1 THEN m ELSE m + bit

\* mouseButtons &= ~bit
AndNotBit(m, bit) == IF (m \div bit) % 2 = 1 THEN m - bit ELSE m

\* ------------------------------------------------------------------------
\* Records
\* ------------------------------------------------------------------------
\* memset(&event, 0, sizeof(Win32Event))
ZeroEvent ==
  [type |-> WIN32_EVENT_NONE, key |-> 0, button |-> 0, mouseX |-> 0,
   mouseY |-> 0, width |-> 0, height |-> 0]

\* calloc(1, sizeof(Win32Display)): every field zero
ZeroDisplay ==
  [hwnd |-> NULL, hdc |-> NULL, memDC |-> NULL, bitmap |-> NULL,
   width |-> 0, height |-> 0, pixels |-> NULL, bits |-> << >>,
   shouldClose |-> 0,
   events |-> [i \in 0..(QueueSlots - 1) |-> ZeroEvent],
   eventHead |-> 0, eventTail |-> 0,
   mouseX |-> 0, mouseY |-> 0, mouseButtons |-> 0]

\* a message of the thread's message queue
Msg(h, m, w, l) == [hwnd |-> h, message |-> m, wParam |-> w, lParam |-> l]

\* ------------------------------------------------------------------------
\* Event queue
\* ------------------------------------------------------------------------
\* win32_push_event without the test for a full queue
PushEventNoDrop(d, event) ==
  [d EXCEPT !.events[d.eventTail] = event,
            !.eventTail = (d.eventTail + 1) % QueueSlots]

\* win32_push_event that stores into the slot after the tail
PushEventWrongSlot(d, event) ==
  LET next == (d.eventTail + 1) % QueueSlots IN
  IF next # d.eventHead
    THEN [d EXCEPT !.events[next] = event, !.eventTail = next]
    ELSE d

\* win32_push_event whose new tail is not taken % 64
PushEventNoWrap(d, event) ==
  LET next == d.eventTail + 1 IN
  IF next # d.eventHead
    THEN [d EXCEPT !.events[d.eventTail] = event, !.eventTail = next]
    ELSE d

\* win32_push_event
win32_push_event(d, event) ==
  LET next == (d.eventTail + 1) % QueueSlots IN
  IF next # d.eventHead
    THEN [d EXCEPT !.events[d.eventTail] = event, !.eventTail = next]
    ELSE d

\* win32_has_events
win32_has_events(d) == d.eventHead # d.eventTail

\* win32_pop_event that advances the head before it reads the event
PopEventAdvanceFirst(d) ==
  IF d.eventHead = d.eventTail
    THEN [val |-> 0, event |-> ZeroEvent, disp |-> d]
    ELSE [val |-> 1, event |-> d.events[(d.eventHead + 1) % QueueSlots],
          disp |-> [d EXCEPT !.eventHead = (d.eventHead + 1) % QueueSlots]]

\* win32_pop_event: the return value, the event written to *event (ZeroEvent
\* stands for "not written") and the display afterwards
win32_pop_event(d) ==
  IF d.eventHead = d.eventTail
    THEN [val |-> 0, event |-> ZeroEvent, disp |-> d]
    ELSE [val |-> 1, event |-> d.events[d.eventHead],
          disp |-> [d EXCEPT !.eventHead = (d.eventHead + 1) % QueueSlots]]

\* ------------------------------------------------------------------------
\* Window procedure (the message translator)
\* ------------------------------------------------------------------------
\* the messages whose case pushes an event
EventMessages ==
  {"WM_CLOSE", "WM_KEYDOWN", "WM_KEYUP", "WM_LBUTTONDOWN", "WM_RBUTTONDOWN",
   "WM_MBUTTONDOWN", "WM_LBUTTONUP", "WM_RBUTTONUP", "WM_MBUTTONUP",
   "WM_MOUSEMOVE", "WM_SIZE"}

\* event.type / event.button of the button cases
ButtonEvent(type, button, msg) ==
  [ZeroEvent EXCEPT !.type = type, !.button = button,
                    !.mouseX = LOWORD(msg.lParam), !.mouseY = HIWORD(msg.lParam)]

\* the local `event` as the case of msg.message fills it in
WndProcEvent(msg) ==
  CASE msg.message = "WM_CLOSE" -> [ZeroEvent EXCEPT !.type = WIN32_EVENT_CLOSE]
    [] msg.message = "WM_KEYDOWN" ->
         [ZeroEvent EXCEPT !.type = WIN32_EVENT_KEY_PRESS, !.key = ToInt(msg.wParam)]
    [] msg.message = "WM_KEYUP" ->
         [ZeroEvent EXCEPT !.type = WIN32_EVENT_KEY_RELEASE, !.key = ToInt(msg.wParam)]
    [] msg.message = "WM_LBUTTONDOWN" -> ButtonEvent(WIN32_EVENT_MOUSE_PRESS, Button1, msg)
    [] msg.message = "WM_RBUTTONDOWN" -> ButtonEvent(WIN32_EVENT_MOUSE_PRESS, Button3, msg)
    [] msg.message = "WM_MBUTTONDOWN" -> ButtonEvent(WIN32_EVENT_MOUSE_PRESS, Button2, msg)
    [] msg.message = "WM_LBUTTONUP" -> ButtonEvent(WIN32_EVENT_MOUSE_RELEASE, Button1, msg)
    [] msg.message = "WM_RBUTTONUP" -> ButtonEvent(WIN32_EVENT_MOUSE_RELEASE, Button3, msg)
    [] msg.message = "WM_MBUTTONUP" -> ButtonEvent(WIN32_EVENT_MOUSE_RELEASE, Button2, msg)
    [] msg.message = "WM_MOUSEMOVE" ->
         [ZeroEvent EXCEPT !.type = WIN32_EVENT_MOUSE_MOVE,
                           !.mouseX = LOWORD(msg.lParam), !.mouseY = HIWORD(msg.lParam)]
    [] msg.message = "WM_SIZE" ->
         [ZeroEvent EXCEPT !.type = WIN32_EVENT_RESIZE,
                           !.width = LOWORD(msg.lParam), !.height = HIWORD(msg.lParam)]
    [] OTHER -> ZeroEvent

\* case WM_CLOSE that sets the flag only when the event was stored
OnCloseFlagIfStored(d, event) ==
  LET q == win32_push_event(d, event) IN
  IF q.eventTail # d.eventTail THEN [q EXCEPT !.shouldClose = 1] ELSE q

\* case WM_CLOSE, the body of if (disp)
OnClose(d, event) == win32_push_event([d EXCEPT !.shouldClose = 1], event)

\* case WM_MOUSEMOVE that records the position only when the event was stored
OnMouseMoveIfStored(d, event) ==
  LET q == win32_push_event(d, event) IN
  IF q.eventTail # d.eventTail
    THEN [q EXCEPT !.mouseX = event.mouseX, !.mouseY = event.mouseY]
    ELSE q

\* case WM_MOUSEMOVE, the body of if (disp)
OnMouseMove(d, event) ==
  win32_push_event([d EXCEPT !.mouseX = event.mouseX, !.mouseY = event.mouseY], event)

\* cases WM_xBUTTONDOWN that set the bit only when the event was stored
OnButtonDownIfStored(d, bit, event) ==
  LET q == win32_push_event(d, event) IN
  IF q.eventTail # d.eventTail THEN [q EXCEPT !.mouseButtons = OrBit(@, bit)] ELSE q

\* cases WM_xBUTTONDOWN, the body of if (disp): mouseButtons |= bit
OnButtonDown(d, bit, event) ==
  win32_push_event([d EXCEPT !.mouseButtons = OrBit(@, bit)], event)

\* cases WM_xBUTTONUP, the body of if (disp): mouseButtons &= ~bit
OnButtonUp(d, bit, event) ==
  win32_push_event([d EXCEPT !.mouseButtons = AndNotBit(@, bit)], event)

\* case WM_SIZE that records the new size in the session
OnSizeResizing(d, event) ==
  win32_push_event([d EXCEPT !.width = event.width, !.height = event.height], event)

\* case WM_SIZE, the body of if (disp)
OnSize(d, event) == win32_push_event(d, event)

\* the session *disp after the case of msg.message ran with disp non-null
WndProcDisplay(d, msg) ==
  LET event == WndProcEvent(msg) IN
  CASE msg.message = "WM_CLOSE" -> OnClose(d, event)
    [] msg.message \in {"WM_KEYDOWN", "WM_KEYUP"} -> win32_push_event(d, event)
    [] msg.message = "WM_SIZE" -> OnSize(d, event)
    [] msg.message = "WM_LBUTTONDOWN" -> OnButtonDown(d, 1, event)
    [] msg.message = "WM_RBUTTONDOWN" -> OnButtonDown(d, 4, event)
    [] msg.message = "WM_MBUTTONDOWN" -> OnButtonDown(d, 2, event)
    [] msg.message = "WM_LBUTTONUP" -> OnButtonUp(d, 1, event)
    [] msg.message = "WM_RBUTTONUP" -> OnButtonUp(d, 4, event)
    [] msg.message = "WM_MBUTTONUP" -> OnButtonUp(d, 2, event)
    [] msg.message = "WM_MOUSEMOVE" -> OnMouseMove(d, event)
    [] OTHER -> d

\* number of events stored in the ring
Stored(d) == (d.eventTail - d.eventHead + QueueSlots) % QueueSlots

\* history entry of one event the translator generated for a session: the
\* event, the window the message was for, whether the ring held
\* QueueSlots - 1 events when it was generated, and whether the push left the
\* ring as it was
GenEntry(d, after, msg) ==
  [event |-> WndProcEvent(msg), hwnd |-> msg.hwnd,
   full |-> (Stored(d) = QueueSlots - 1),
   dropped |-> (after.eventTail = d.eventTail /\ after.events = d.events)]

\* the history of a session after one more generated event; mixed: an event was
\* generated after the consumer had popped one
Generated(h, entry, npop) ==
  [log |-> Append(h.log, entry), mixed |-> (h.mixed \/ npop > 0)]

\* case WM_DESTROY that posts the message again instead of the quit message
OnDestroyRepost(m, msg) == [m EXCEPT !.pending = Append(@, msg)]

\* case WM_DESTROY: PostQuitMessage(0)
OnDestroy(m, msg) == [m EXCEPT !.pending = Append(@, Msg(NULL, "WM_QUIT", 0, 0))]

\* win32_window_proc on the machine state m = [disp, pending, screen, gen]
\* with the global g_display = g.  WM_DESTROY posts the quit message; WM_PAINT
\* copies the off-screen surface of *g_display onto the window being painted;
\* every other message not listed goes to DefWindowProc.
win32_window_proc(m, g, msg) ==
  CASE msg.message = "WM_DESTROY" -> OnDestroy(m, msg)
    [] msg.message = "WM_PAINT" ->
         IF g # NULL /\ m.disp[g].memDC # NULL
           THEN [m EXCEPT !.screen[msg.hwnd] = m.disp[g].bits]
           ELSE m
    [] msg.message \in EventMessages ->
         IF g # NULL
           THEN LET d == m.disp[g]
                    after == WndProcDisplay(d, msg)
                IN [m EXCEPT !.disp[g] = after,
                             !.gen[g] = Generated(@, GenEntry(d, after, msg),
                                                  m.npop[g])]
           ELSE m
    [] OTHER -> m

\* ------------------------------------------------------------------------
\* State
\* ------------------------------------------------------------------------
VARIABLES
  heap,       \* heap[p]: "unused", "live" or "freed", the Win32Display at address p
  disp,       \* disp[p]: the Win32Display record at the live address p
  g_display,  \* the global pointer the window procedure reads
  windows,    \* the window handles that exist on the platform
  pending,    \* the thread's message queue, oldest message first
  screen,     \* screen[h]: the pixels visible in window h
  crashed,    \* the process took a fault (null dereference)
  ret,        \* the last call of the application and what it returned
  gen,        \* history: gen[p], the events the translator generated for p
  del,        \* history: del[p], the events win32_pop_event returned for p
  quitSeen,   \* history: quitSeen[p], win32_process_events(p) retrieved WM_QUIT
  nposts,     \* messages produced by the platform so far
  seed        \* where the scripted message sequence of SpecQueue starts

vars ==
  <<heap, disp, g_display, windows, pending, screen, crashed, ret, gen, del,
    quitSeen, nposts, seed>>

\* the addresses calloc can return; window p gets the handle p
Ptr == 1..MaxSessions

\* the part of the state the window procedure works on
Machine ==
  [disp |-> disp, pending |-> pending, screen |-> screen, gen |-> gen,
   npop |-> [p \in Ptr |-> Len(del[p])]]

\* before the first win32_create_window: g_display is NULL, nothing exists
InitState ==
  /\ heap = [p \in Ptr |-> "unused"]
  /\ disp = [p \in {} |-> ZeroDisplay]
  /\ g_display = NULL
  /\ windows = {}
  /\ pending = << >>
  /\ screen = [p \in Ptr |-> << >>]
  /\ crashed = FALSE
  /\ ret = [op |-> "start"]
  /\ gen = [p \in Ptr |-> [log |-> << >>, mixed |-> FALSE]]
  /\ del = [p \in Ptr |-> << >>]
  /\ quitSeen = [p \in Ptr |-> FALSE]
  /\ nposts = 0

Init == InitState /\ seed = 0

Live(p) == p \in Ptr /\ heap[p] = "live"

\* ------------------------------------------------------------------------
\* win32_create_window
\* ------------------------------------------------------------------------
\* the window sizes the application asks for
Dims == {<<2, 1>>}

\* pixel memory is kept run-length encoded, a sequence of runs of n equal
\* bytes: n bytes of value byte
Run(n, byte) == <<[n |-> n, byte |-> byte]>>

RECURSIVE ByteCount(_)
\* the number of bytes of the pixel memory bits
ByteCount(bits) ==
  IF bits = << >> THEN 0 ELSE Head(bits).n + ByteCount(Tail(bits))

\* the zero-filled DIB section of a width x height window, 4 bytes a pixel
ZeroBits(width, height) == Run(width * height * 4, 0)

\* the record win32_create_window returns once CreateWindowExA gave the window
\* p: GetDC, CreateCompatibleDC and CreateDIBSection each succeed or return
\* NULL, and no result is tested
CreatedDisplay(p, width, height, hdcOk, memOk, dibOk) ==
  [ZeroDisplay EXCEPT
     !.width = width, !.height = height, !.hwnd = p,
     !.hdc = IF hdcOk THEN p ELSE NULL,
     !.memDC = IF memOk THEN p ELSE NULL,
     !.bitmap = IF dibOk THEN p ELSE NULL,
     !.pixels = IF dibOk THEN p ELSE NULL,
     !.bits = IF dibOk THEN ZeroBits(width, height) ELSE << >>]

\* the outcomes of the platform calls of one win32_create_window; shown:
\* ShowWindow and UpdateWindow found the window shown for the first time and
\* sent it its size and a paint request
CreateOutcomes ==
  {[calloc |-> c, hwnd |-> w, hdc |-> h, memDC |-> m, dib |-> b, shown |-> s] :
     c \in BOOLEAN, w \in BOOLEAN, h \in BOOLEAN, m \in BOOLEAN, b \in BOOLEAN,
     s \in BOOLEAN}

\* at most one platform call of a win32_create_window fails
FewFailures(o) ==
  Cardinality({f \in {"calloc", "hwnd", "hdc", "memDC", "dib"} : ~o[f]}) <= 1

\* the device contexts and the DIB section are there whenever the window is
SurfaceOk(o) == o.hdc /\ o.memDC /\ o.dib

\* ShowWindow(hwnd, SW_SHOW) sends the window procedure the client size of a
\* window shown for the first time
ShowWindow(m, g, h, width, height) ==
  win32_window_proc(m, g, Msg(h, "WM_SIZE", 0, MAKELPARAM(width, height)))

\* UpdateWindow(hwnd) sends the window procedure a paint request
UpdateWindow(m, g, h) == win32_window_proc(m, g, Msg(h, "WM_PAINT", 0, 0))

win32_create_window(width, height, o) ==
  /\ ~crashed
  /\ \E p \in Ptr :
       /\ heap[p] = "unused"
       /\ \A q \in Ptr : heap[q] = "unused" => p <= q
       /\ IF ~o.calloc \/ ~o.hwnd
            THEN \* calloc returned NULL, or the record was freed again
                 /\ ret' = [op |-> "create_window", val |-> NULL, outcome |-> o]
                 /\ UNCHANGED <<heap, disp, g_display, windows, screen, gen>>
            ELSE LET created ==
                       [Machine EXCEPT
                          !.disp = [q \in DOMAIN disp \cup {p} |->
                            IF q = p
                              THEN CreatedDisplay(p, width, height, o.hdc, o.memDC, o.dib)
                              ELSE disp[q]],
                          !.screen[p] = << >>]
                     \* g_display = disp comes before the window is shown
                     shown == IF o.shown
                                THEN UpdateWindow(ShowWindow(created, p, p, width, height),
                                                  p, p)
                                ELSE created
                 IN /\ heap' = [heap EXCEPT ![p] = "live"]
                    /\ disp' = shown.disp
                    /\ g_display' = p
                    /\ windows' = windows \cup {p}
                    /\ screen' = shown.screen
                    /\ gen' = shown.gen
                    /\ ret' = [op |-> "create_window", val |-> p, outcome |-> o]
  /\ UNCHANGED <<pending, crashed, del, quitSeen, nposts, seed>>

\* ------------------------------------------------------------------------
\* win32_destroy_window
\* ------------------------------------------------------------------------
\* the releases of win32_destroy_window with the window destroyed first
ReleasesWindowFirst(d) ==
  (IF d.hwnd # NULL THEN <<"DestroyWindow">> ELSE << >>)
  \o (IF d.bitmap # NULL THEN <<"DeleteObject">> ELSE << >>)
  \o (IF d.memDC # NULL THEN <<"DeleteDC">> ELSE << >>)
  \o (IF d.hdc # NULL THEN <<"ReleaseDC">> ELSE << >>)

\* the releases of win32_destroy_window, in the order of the calls
Releases(d) ==
  (IF d.bitmap # NULL THEN <<"DeleteObject">> ELSE << >>)
  \o (IF d.memDC # NULL THEN <<"DeleteDC">> ELSE << >>)
  \o (IF d.hdc # NULL THEN <<"ReleaseDC">> ELSE << >>)
  \o (IF d.hwnd # NULL THEN <<"DestroyWindow">> ELSE << >>)

\* win32_destroy_window without the assignment to g_display
GlobalKept(g, p) == g

\* g_display = NULL; in win32_destroy_window(p)
GlobalAfterDestroy(g, p) == NULL

\* DestroyWindow(hwnd) sends WM_DESTROY to the window procedure before it
\* returns, and the window is gone from the screen
win32_destroy_window(p) ==
  /\ ~crashed
  /\ Live(p)
  /\ LET d == disp[p]
         m == IF d.hwnd # NULL /\ d.hwnd \in windows
                THEN win32_window_proc(Machine, g_display, Msg(d.hwnd, "WM_DESTROY", 0, 0))
                ELSE Machine
     IN /\ pending' = m.pending
        /\ screen' = [m.screen EXCEPT ![p] = << >>]
        /\ windows' = windows \ {d.hwnd}
        /\ g_display' = GlobalAfterDestroy(g_display, p)
        /\ heap' = [heap EXCEPT ![p] = "freed"]
        /\ disp' = [q \in DOMAIN disp \ {p} |-> m.disp[q]]
        \* free(disp) is the last statement
        /\ ret' = [op |-> "destroy_window", s |-> p, val |-> NULL,
                   released |-> Releases(d) \o <<"free">>]
        \* the histories of a session end with the session
        /\ gen' = [m.gen EXCEPT ![p] = [log |-> << >>, mixed |-> FALSE]]
        /\ del' = [del EXCEPT ![p] = << >>]
        /\ quitSeen' = [quitSeen EXCEPT ![p] = FALSE]
  /\ UNCHANGED <<crashed, nposts, seed>>

\* ------------------------------------------------------------------------
\* The message queue of the thread
\* ------------------------------------------------------------------------
\* PostMessage / PostThreadMessage / input: the platform queues msg
Post(msg) ==
  /\ ~crashed
  /\ nposts < MaxPosts
  /\ msg.hwnd = NULL \/ msg.hwnd \in windows
  /\ pending' = Append(pending, msg)
  /\ nposts' = nposts + 1
  /\ ret' = [op |-> "post", msg |-> msg]
  /\ UNCHANGED <<heap, disp, g_display, windows, screen, crashed, gen, del,
                 quitSeen, seed>>

\* the client size of a window the user resized
Resized == <<3, 2>>

\* the messages the platform posts for window h
WindowMessages(h) ==
  {Msg(h, "WM_CLOSE", 0, 0), Msg(h, "WM_DESTROY", 0, 0),
   Msg(h, "WM_KEYDOWN", 27, 0),
   Msg(h, "WM_MOUSEMOVE", 0, MAKELPARAM(10, 20)),
   Msg(h, "WM_SIZE", 0, MAKELPARAM(Resized[1], Resized[2])),
   Msg(h, "WM_PAINT", 0, 0)}

\* the quit message, a message of the thread and of no window
QuitMessage == Msg(NULL, "WM_QUIT", 0, 0)

\* TranslateMessage: posts the character message of a key-down message
TranslateMessage(m, msg) ==
  IF msg.message = "WM_KEYDOWN"
    THEN [m EXCEPT !.pending = Append(@, Msg(msg.hwnd, "WM_CHAR", msg.wParam, msg.lParam))]
    ELSE m

\* DispatchMessage: calls the window procedure of the window of msg
DispatchMessage(m, g, msg) ==
  IF msg.hwnd \in windows THEN win32_window_proc(m, g, msg) ELSE m

\* if (msg.message == WM_QUIT) without the assignment to shouldClose
OnQuitNoFlag(d) == d

\* if (msg.message == WM_QUIT) { disp->shouldClose = 1; ... }
OnQuit(d) == [d EXCEPT !.shouldClose = 1]

\* the loop of win32_process_events written as an if: one message a call
PumpMessagesOnce(m, g, p) ==
  IF m.pending = << >>
    THEN m
    ELSE LET msg == Head(m.pending)
             rest == [m EXCEPT !.pending = Tail(@)]
         IN IF msg.message = "WM_QUIT"
              THEN [rest EXCEPT !.quit = TRUE, !.fault = (p = NULL),
                     !.disp = IF p = NULL THEN @ ELSE [@ EXCEPT ![p] = OnQuit(@)]]
              ELSE DispatchMessage(
                     TranslateMessage([rest EXCEPT !.handed = Append(@, msg)], msg),
                     g, msg)

RECURSIVE PumpMessages(_, _, _)
\* the loop of win32_process_events(p): PeekMessage(PM_REMOVE) takes the oldest
\* message; WM_QUIT ends the call, any other message is dispatched.  quit: the
\* call ended on WM_QUIT; handed: the messages dispatched; fault: the call
\* wrote through a null disp
PumpMessages(m, g, p) ==
  IF m.pending = << >>
    THEN m
    ELSE LET msg == Head(m.pending)
             rest == [m EXCEPT !.pending = Tail(@)]
         IN IF msg.message = "WM_QUIT"
              THEN [rest EXCEPT !.quit = TRUE, !.fault = (p = NULL),
                     !.disp = IF p = NULL THEN @ ELSE [@ EXCEPT ![p] = OnQuit(@)]]
              ELSE PumpMessages(
                     DispatchMessage(
                       TranslateMessage([rest EXCEPT !.handed = Append(@, msg)], msg),
                       g, msg),
                     g, p)

\* win32_process_events that always reports "continue" after the loop
ProcessEventsValueZero(r, p) == IF r.quit THEN 1 ELSE 0

\* the value win32_process_events(p) returns after the pump r
ProcessEventsValue(r, p) == IF r.quit THEN 1 ELSE r.disp[p].shouldClose

\* a read or write through a null Win32Display*: the process faults, or the
\* access goes unnoticed and the call returns whatever it read
NullAccess(op) ==
  \/ /\ crashed' = TRUE
     /\ ret' = [op |-> op, s |-> NULL, val |-> "fault"]
  \/ /\ crashed' = crashed
     /\ ret' = [op |-> op, s |-> NULL, val |-> "garbage"]

win32_process_events(p) ==
  /\ ~crashed
  /\ p = NULL \/ Live(p)
  /\ LET start == [disp |-> disp, pending |-> pending, screen |-> screen,
                   gen |-> gen, npop |-> [q \in Ptr |-> Len(del[q])],
                   quit |-> FALSE, fault |-> FALSE, handed |-> << >>]
         r == PumpMessages(start, g_display, p)
     IN /\ disp' = r.disp
        /\ pending' = r.pending
        /\ screen' = r.screen
        /\ gen' = r.gen
        /\ IF p = NULL
             THEN /\ NullAccess("process_events")
                  /\ UNCHANGED quitSeen
             ELSE /\ ret' = [op |-> "process_events", s |-> p,
                             val |-> ProcessEventsValue(r, p),
                             quit |-> r.quit, handed |-> r.handed,
                             before |-> pending]
                  /\ quitSeen' = [quitSeen EXCEPT ![p] = @ \/ r.quit]
                  /\ UNCHANGED crashed
  /\ UNCHANGED <<heap, g_display, windows, del, nposts, seed>>

\* ------------------------------------------------------------------------
\* The calls of the application that read or consume session state
\* ------------------------------------------------------------------------
\* the variables none of the calls below changes
Platform == <<heap, g_display, windows, pending, gen, quitSeen, nposts, seed>>

\* win32_get_mouse(disp, &x, &y): the values written to x and y
win32_get_mouse(d) == <<d.mouseX, d.mouseY>>

\* win32_should_close
win32_should_close(d) == d.shouldClose

PopEvent(p) ==
  /\ ~crashed
  /\ Live(p)
  /\ LET r == win32_pop_event(disp[p])
     IN /\ disp' = [disp EXCEPT ![p] = r.disp]
        /\ del' = IF r.val = 1 THEN [del EXCEPT ![p] = Append(@, r.event)] ELSE del
        /\ ret' = [op |-> "pop_event", s |-> p, val |-> r.val, event |-> r.event]
  /\ UNCHANGED <<Platform, screen, crashed>>

\* ------------------------------------------------------------------------
\* win32_blit_pixels
\* ------------------------------------------------------------------------
\* the frames the application presents to a width x height window
Frames(width, height) == {Run(width * height * 4, fill) : fill \in {16}}

\* the null pixel pointer (a frame has at least one pixel, so it is not empty)
NullPixels == << >>

\* if (!disp) return; the test of pixels forgotten
BlitTestsSessionOnly(p, pixels) == p = NULL

\* if (!disp || !pixels) return;
BlitReturnsEarly(p, pixels) == p = NULL \/ pixels = NullPixels

\* win32_blit_pixels(p, pixels); ret.nopixels: pixels was the null pointer
BlitPixels(p, pixels) ==
  /\ ~crashed
  /\ p = NULL \/ Live(p)
  /\ IF BlitReturnsEarly(p, pixels)
       THEN /\ ret' = [op |-> "blit_pixels", s |-> p, val |-> NULL,
                       nopixels |-> (pixels = NullPixels)]
            /\ UNCHANGED <<disp, screen, crashed>>
       ELSE LET d == disp[p] IN
            IF d.pixels = NULL
              THEN \* memcpy to a null destination: the process faults, or the
                   \* copy goes unnoticed and BitBlt runs on what there is
                   \/ /\ crashed' = TRUE
                      /\ ret' = [op |-> "blit_pixels", s |-> p, val |-> "fault",
                                 nopixels |-> (pixels = NullPixels)]
                      /\ UNCHANGED <<disp, screen>>
                   \/ /\ screen' = IF d.hdc # NULL /\ d.memDC # NULL
                                     THEN [screen EXCEPT ![d.hwnd] = d.bits]
                                     ELSE screen
                      /\ ret' = [op |-> "blit_pixels", s |-> p, val |-> "garbage",
                                 nopixels |-> (pixels = NullPixels)]
                      /\ UNCHANGED <<disp, crashed>>
              ELSE /\ disp' = [disp EXCEPT ![p].bits = pixels]
                   /\ screen' = IF d.hdc # NULL /\ d.memDC # NULL
                                  THEN [screen EXCEPT ![d.hwnd] = pixels]
                                  ELSE screen
                   /\ ret' = [op |-> "blit_pixels", s |-> p, val |-> NULL,
                              nopixels |-> (pixels = NullPixels)]
                   /\ UNCHANGED crashed
  /\ UNCHANGED <<Platform, del>>

\* ------------------------------------------------------------------------
\* Spec: one session at a time, messages posted and pumped
\* ------------------------------------------------------------------------
\* the application keeps to one session at a time
NoSession == \A p \in Ptr : heap[p] # "live"

\* the sessions created so far
Created == {p \in Ptr : heap[p] # "unused"}

Create ==
  /\ NoSession
  /\ Cardinality(Created) < MaxCreates
  /\ \E dim \in Dims, o \in CreateOutcomes :
       FewFailures(o) /\ SurfaceOk(o) /\ win32_create_window(dim[1], dim[2], o)

Destroy == \E p \in Ptr : win32_destroy_window(p)

PostAny ==
  \/ \E h \in windows : \E msg \in WindowMessages(h) : Post(msg)
  \/ windows # {} /\ Post(QuitMessage)

Pump == \E p \in Ptr : win32_process_events(p)

Pop == \E p \in Ptr : PopEvent(p)

Blit ==
  \E p \in Ptr : Live(p) /\
    \E pixels \in Frames(disp[p].width, disp[p].height) \cup {NullPixels} :
      BlitPixels(p, pixels)

Next == Create \/ Destroy \/ PostAny \/ Pump \/ Pop \/ Blit

Spec == Init /\ [][Next]_vars

\* ------------------------------------------------------------------------
\* SpecErrors: failing platform calls and calls with a null session
\* ------------------------------------------------------------------------
\* the messages posted in SpecErrors
ErrorMessages(h) == {Msg(h, "WM_CLOSE", 0, 0), Msg(h, "WM_TIMER", 1, 0)}

CreateAny ==
  /\ NoSession
  /\ Cardinality(Created) < MaxCreates
  /\ \E dim \in Dims, o \in CreateOutcomes :
       FewFailures(o) /\ win32_create_window(dim[1], dim[2], o)

PostError ==
  \/ \E h \in windows : \E msg \in ErrorMessages(h) : Post(msg)
  \/ windows # {} /\ Post(QuitMessage)

\* win32_has_events(NULL), win32_pop_event(NULL, &e), win32_get_time(NULL),
\* win32_should_close(NULL): each reads a field of *disp first thing
NullRead(op) ==
  /\ ~crashed
  /\ NullAccess(op)
  /\ UNCHANGED <<Platform, disp, screen, del>>

\* win32_get_mouse(NULL, x, y); want: x or y is not null
GetMouseNull(want) ==
  /\ ~crashed
  /\ IF want
       THEN NullAccess("get_mouse")
       ELSE /\ ret' = [op |-> "get_mouse", s |-> NULL, val |-> NULL]
            /\ UNCHANGED crashed
  /\ UNCHANGED <<Platform, disp, screen, del>>

\* win32_destroy_window(NULL)
DestroyNull ==
  /\ ~crashed
  /\ ret' = [op |-> "destroy_window", s |-> NULL, val |-> NULL, released |-> << >>]
  /\ UNCHANGED <<Platform, disp, screen, del, crashed>>

NullCalls ==
  \/ win32_process_events(NULL)
  \/ \E op \in {"has_events", "pop_event", "get_time", "should_close"} : NullRead(op)
  \/ \E want \in BOOLEAN : GetMouseNull(want)
  \/ BlitPixels(NULL, NullPixels)
  \/ \E pixels \in Frames(1, 1) : BlitPixels(NULL, pixels)
  \/ DestroyNull

NextErrors == CreateAny \/ Destroy \/ PostError \/ Pump \/ Blit \/ NullCalls

SpecErrors == Init /\ [][NextErrors]_vars

\* ------------------------------------------------------------------------
\* SpecQueue: one session, a long run of notifications against the consumer
\* ------------------------------------------------------------------------
\* the messages of the scripted run, in the order the run cycles through them
ScriptKinds ==
  <<"WM_MOUSEMOVE", "WM_LBUTTONDOWN", "WM_KEYDOWN", "WM_LBUTTONUP", "WM_CLOSE",
    "WM_RBUTTONDOWN", "WM_SIZE", "WM_MBUTTONDOWN", "WM_KEYUP", "WM_RBUTTONUP",
    "WM_MBUTTONUP">>

\* the runs: run sd < Len(ScriptKinds) cycles through ScriptKinds from its
\* sd-th kind on; run Len(ScriptKinds) + sd does the same after KeyRepeats
\* key messages (keys held down, repeating)
Seeds == 0..(2 * Len(ScriptKinds) - 1)

\* the kind of the n-th message (n = 0, 1, ...) of run sd
ScriptKind(sd, n) ==
  IF sd >= Len(ScriptKinds) /\ n < KeyRepeats
    THEN (IF n % 2 = 0 THEN "WM_KEYDOWN" ELSE "WM_KEYUP")
    ELSE ScriptKinds[((sd + n) % Len(ScriptKinds)) + 1]

\* the n-th message of run sd: its key code and its position are its own, so
\* that no two events of a run are equal
ScriptMsg(h, sd, n) ==
  Msg(h, ScriptKind(sd, n), (n + 1) % 256, MAKELPARAM(n + 1, 2 * n + 1))

\* the platform calls the window procedure with msg (a sent message)
Notify(msg) ==
  /\ ~crashed
  /\ nposts < MaxNotifs
  /\ msg.hwnd \in windows
  /\ LET m == win32_window_proc(Machine, g_display, msg)
     IN /\ disp' = m.disp
        /\ pending' = m.pending
        /\ screen' = m.screen
        /\ gen' = m.gen
  /\ nposts' = nposts + 1
  /\ ret' = [op |-> "window_proc", msg |-> msg]
  /\ UNCHANGED <<heap, g_display, windows, crashed, del, quitSeen, seed>>

QueueInit == InitState /\ seed \in Seeds

\* every platform call of the creation succeeds
AllOk(shown) ==
  [calloc |-> TRUE, hwnd |-> TRUE, hdc |-> TRUE, memDC |-> TRUE, dib |-> TRUE,
   shown |-> shown]

QueueCreate ==
  /\ NoSession
  /\ heap[1] = "unused"
  /\ \E dim \in Dims, shown \in BOOLEAN :
       win32_create_window(dim[1], dim[2], AllOk(shown))

QueueNotify == \E h \in windows : Notify(ScriptMsg(h, seed, nposts))

QueuePop == \E p \in Ptr : PopEvent(p)

QueueNext == QueueCreate \/ QueueNotify \/ QueuePop

SpecQueue == QueueInit /\ [][QueueNext]_vars

\* ------------------------------------------------------------------------
\* SpecPump: win32_process_events one iteration of its loop a step
\* ------------------------------------------------------------------------
\* no win32_process_events call is under way
Idle == ret.op # "pumping"

\* win32_process_events(p) is entered; ret.before: the messages pending then
PumpStart(p) ==
  /\ ~crashed
  /\ Idle
  /\ Live(p)
  /\ ret' = [op |-> "pumping", s |-> p, before |-> pending]
  /\ UNCHANGED <<heap, disp, g_display, windows, pending, screen, crashed, gen,
                 del, quitSeen, nposts, seed>>

\* one evaluation of the loop condition of win32_process_events(p) and of the
\* loop body: PeekMessage finds nothing and the call returns shouldClose, or
\* it removes the oldest message, a WM_QUIT ends the call with 1, and any
\* other message is translated and dispatched
PumpStep(p) ==
  /\ ret.op = "pumping" /\ ret.s = p
  /\ IF pending = << >>
       THEN /\ ret' = [op |-> "process_events", s |-> p, val |-> disp[p].shouldClose,
                       quit |-> FALSE, before |-> ret.before]
            /\ UNCHANGED <<disp, pending, screen, gen, quitSeen>>
       ELSE LET msg == Head(pending)
                rest == [Machine EXCEPT !.pending = Tail(@)]
            IN IF msg.message = "WM_QUIT"
                 THEN /\ disp' = [disp EXCEPT ![p] = OnQuit(@)]
                      /\ pending' = rest.pending
                      /\ ret' = [op |-> "process_events", s |-> p, val |-> 1,
                                 quit |-> TRUE, before |-> ret.before]
                      /\ quitSeen' = [quitSeen EXCEPT ![p] = TRUE]
                      /\ UNCHANGED <<screen, gen>>
                 ELSE LET m == DispatchMessage(TranslateMessage(rest, msg), g_display, msg)
                      IN /\ disp' = m.disp
                         /\ pending' = m.pending
                         /\ screen' = m.screen
                         /\ gen' = m.gen
                         /\ UNCHANGED <<ret, quitSeen>>
  /\ UNCHANGED <<heap, g_display, windows, crashed, del, nposts, seed>>

\* keys held down before anything was posted: the platform sends the window
\* procedure the next message of the run of ScriptKinds that opens with
\* KeyRepeats key messages
HeldKey ==
  /\ ~crashed
  /\ Idle
  /\ nposts = 0
  /\ g_display # NULL
  /\ Len(gen[g_display].log) <= KeyRepeats + 1
  /\ \E h \in windows :
       LET msg == ScriptMsg(h, Len(ScriptKinds), Len(gen[g_display].log))
           m == win32_window_proc(Machine, g_display, msg)
       IN /\ disp' = m.disp
          /\ pending' = m.pending
          /\ screen' = m.screen
          /\ gen' = m.gen
          /\ ret' = [op |-> "window_proc", msg |-> msg]
  /\ UNCHANGED <<heap, g_display, windows, crashed, del, quitSeen, nposts, seed>>

\* the messages posted for window h in SpecPump
PostedMessages(h) ==
  {Msg(h, "WM_CLOSE", 0, 0), Msg(h, "WM_DESTROY", 0, 0), Msg(h, "WM_KEYDOWN", 27, 0)}

PumpCreate ==
  /\ Idle
  /\ NoSession
  /\ heap[1] = "unused"
  /\ \E dim \in Dims, shown \in BOOLEAN :
       win32_create_window(dim[1], dim[2], AllOk(shown))

\* messages arrive between the calls of win32_process_events
PumpPost ==
  /\ Idle
  /\ \/ \E h \in windows : \E msg \in PostedMessages(h) : Post(msg)
     \/ windows # {} /\ Post(QuitMessage)

PumpEnter == \E p \in Ptr : PumpStart(p)

PumpLoop == \E p \in Ptr : PumpStep(p)

PumpNext == PumpCreate \/ HeldKey \/ PumpPost \/ PumpEnter \/ PumpLoop

\* the thread that called win32_process_events keeps running
SpecPump == Init /\ [][PumpNext]_vars /\ WF_vars(PumpLoop)

\* ------------------------------------------------------------------------
\* SpecMulti: sessions created and destroyed in any order, also two at a time
\* ------------------------------------------------------------------------
\* win32_create_window succeeds, or calloc or CreateWindowExA fails
MultiOutcomes == {o \in CreateOutcomes : FewFailures(o) /\ SurfaceOk(o)}

\* the notifications sent to window h in SpecMulti
MultiMessages(h) ==
  {Msg(h, "WM_MOUSEMOVE", 0, MAKELPARAM(10, 20)), Msg(h, "WM_LBUTTONDOWN", 1, MAKELPARAM(10, 20)),
   Msg(h, "WM_CLOSE", 0, 0), Msg(h, "WM_PAINT", 0, 0)}

\* the application does not keep to one session at a time
MultiCreate ==
  \E dim \in Dims, o \in MultiOutcomes : win32_create_window(dim[1], dim[2], o)

MultiNotify ==
  /\ nposts < MaxPosts
  /\ \E h \in windows : \E msg \in MultiMessages(h) : Notify(msg)

MultiNext == MultiCreate \/ Destroy \/ MultiNotify

SpecMulti == Init /\ [][MultiNext]_vars

\* ------------------------------------------------------------------------
\* SpecScenario: one 320 x 240 session, pointer and close notifications
\* ------------------------------------------------------------------------
\* the window size of the scenario
ScenarioDims == <<320, 240>>

\* the notifications of the scenario for window h: the pointer moved to
\* (10, 20), the user asked to close the window
ScenarioMessages(h) ==
  {Msg(h, "WM_MOUSEMOVE", 0, MAKELPARAM(10, 20)), Msg(h, "WM_CLOSE", 0, 0)}

ScenarioCreate ==
  /\ NoSession
  /\ heap[1] = "unused"
  /\ \E shown \in BOOLEAN :
       win32_create_window(ScenarioDims[1], ScenarioDims[2], AllOk(shown))

\* the notification is sent to the window procedure, or posted to the queue
ScenarioNotify ==
  \E h \in windows : \E msg \in ScenarioMessages(h) :
    \/ nposts < MaxPosts /\ Notify(msg)
    \/ Post(msg)

ScenarioNext == ScenarioCreate \/ ScenarioNotify \/ Pump \/ Pop \/ Destroy

SpecScenario == Init /\ [][ScenarioNext]_vars

\* ------------------------------------------------------------------------
\* Properties
\* ------------------------------------------------------------------------
\* the events the translator generated for session p, oldest first
GenEvents(p) == [i \in 1..Len(gen[p].log) |-> gen[p].log[i].event]

\* the generated events whose push changed the ring
KeptEntry(e) == ~e.dropped
KeptEvents(p) ==
  LET kept == SelectSeq(gen[p].log, KeptEntry)
  IN [i \in 1..Len(kept) |-> kept[i].event]

\* the events stored in the ring of d, oldest first
QueueContents(d) ==
  [i \in 1..Stored(d) |-> d.events[(d.eventHead + i - 1) % QueueSlots]]

\* the first n elements of the sequence q
Prefix(q, n) == SubSeq(q, 1, n)

\* every event was generated before the first pop, n events or fewer so far:
\* the pops made so far returned the first generated events in order, and as
\* long as fewer events were popped than generated the next pop succeeds with
\* the next generated event
PushesThenPops(p, n) ==
  (p \in DOMAIN disp /\ ~gen[p].mixed /\ Len(gen[p].log) <= n) =>
    /\ Len(del[p]) <= Len(gen[p].log)
    /\ del[p] = Prefix(GenEvents(p), Len(del[p]))
    /\ Len(del[p]) < Len(gen[p].log) =>
         /\ win32_pop_event(disp[p]).val = 1
         /\ win32_pop_event(disp[p]).event = GenEvents(p)[Len(del[p]) + 1]

\* C1 as claimed: from an empty queue, N <= 64 pushed events are returned by
\* the N following pops, all successful, in the pushed order.
C1_AsClaimed == \A p \in Ptr : PushesThenPops(p, QueueSlots)

\* C1, amended: from an empty queue, N <= 63 pushed events are returned by the
\* N following pops, all successful, in the pushed order.
C1_Fifo == \A p \in Ptr : PushesThenPops(p, QueueSlots - 1)

\* 63 events were pushed and then all 63 were popped
C1_Witness ==
  \E p \in DOMAIN disp :
    /\ ~gen[p].mixed
    /\ Len(gen[p].log) = QueueSlots - 1
    /\ Len(del[p]) = QueueSlots - 1
    /\ del[p] = GenEvents(p)

\* 65 events were pushed before the first pop: the first cap are stored, the
\* later ones are lost, the pops return the stored ones in order, and
\* win32_has_events is true until cap events were popped
Overflow(p, cap) ==
  (p \in DOMAIN disp /\ ~gen[p].mixed /\ Len(gen[p].log) = QueueSlots + 1) =>
    /\ \A i \in 1..(QueueSlots + 1) : gen[p].log[i].dropped <=> (i > cap)
    /\ Len(del[p]) <= cap
    /\ del[p] = Prefix(GenEvents(p), Len(del[p]))
    /\ win32_has_events(disp[p]) <=> (Len(del[p]) < cap)

\* C2 as claimed: 65 pushes then pops return the first 64 events in order, the
\* 65th is lost, and win32_has_events turns false after exactly 64 pops.
C2_AsClaimed == \A p \in Ptr : Overflow(p, QueueSlots)

\* C2, amended: 65 pushes then pops return the first 63 events in order, the
\* 64th and the 65th are lost, and win32_has_events turns false after exactly
\* 63 pops.
C2_Overflow == \A p \in Ptr : Overflow(p, QueueSlots - 1)

\* 65 events were pushed and then 63 popped, which emptied the queue
C2_Witness ==
  \E p \in DOMAIN disp :
    /\ ~gen[p].mixed
    /\ Len(gen[p].log) = QueueSlots + 1
    /\ Len(del[p]) = QueueSlots - 1
    /\ ~win32_has_events(disp[p])

\* C3: in every interleaving of notifications and pops, the events popped so
\* far followed by the events still stored are exactly the generated events
\* that were not dropped, in the generated order, and an event is dropped
\* exactly when the queue was full when it was generated.
C3_OrderPreserved ==
  \A p \in DOMAIN disp :
    /\ del[p] \o QueueContents(disp[p]) = KeptEvents(p)
    /\ \A i \in 1..Len(gen[p].log) : gen[p].log[i].dropped <=> gen[p].log[i].full

\* an event was dropped, a later one was stored after a pop, and the consumer
\* has popped every stored event
C3_Witness ==
  \E p \in DOMAIN disp :
    /\ gen[p].mixed
    /\ \E i, j \in 1..Len(gen[p].log) :
         i < j /\ gen[p].log[i].dropped /\ ~gen[p].log[j].dropped
    /\ ~win32_has_events(disp[p])
    /\ Len(del[p]) = QueueSlots

\* the generated events of the types in `types`
OfTypes(p, types) ==
  LET wanted(e) == e.event.type \in types IN SelectSeq(gen[p].log, wanted)

\* the position of the last entry of the log q, (0, 0) for an empty log
LastPosition(q) ==
  IF q = << >> THEN <<0, 0>>
  ELSE <<q[Len(q)].event.mouseX, q[Len(q)].event.mouseY>>

PointerTypes ==
  {WIN32_EVENT_MOUSE_PRESS, WIN32_EVENT_MOUSE_RELEASE, WIN32_EVENT_MOUSE_MOVE}

\* C4 as claimed: win32_get_mouse returns the position of the most recent
\* move, press or release notification.
C4_AsClaimed ==
  \A p \in DOMAIN disp :
    OfTypes(p, PointerTypes) # << >> =>
      win32_get_mouse(disp[p]) = LastPosition(OfTypes(p, PointerTypes))

\* C4, amended: win32_get_mouse returns the position of the most recent
\* pointer-move notification, dropped or not, and (0, 0) before the first one;
\* press and release notifications leave it as it is.
C4_MousePosition ==
  \A p \in DOMAIN disp :
    win32_get_mouse(disp[p]) = LastPosition(OfTypes(p, {WIN32_EVENT_MOUSE_MOVE}))

\* the most recent pointer-move event was dropped, a press or release came
\* after it, and win32_get_mouse returns the position of the move
C4_Witness ==
  \E p \in DOMAIN disp :
    LET moves == OfTypes(p, {WIN32_EVENT_MOUSE_MOVE})
        log == gen[p].log
    IN /\ moves # << >>
       /\ moves[Len(moves)].dropped
       /\ log[Len(log)].event.type = WIN32_EVENT_MOUSE_PRESS
       /\ win32_get_mouse(disp[p]) = LastPosition(moves)
       /\ win32_get_mouse(disp[p]) # LastPosition(log)

\* a Close event was generated for session p
CloseGenerated(p) ==
  \E i \in 1..Len(gen[p].log) : gen[p].log[i].event.type = WIN32_EVENT_CLOSE

\* C5: once shouldClose is set for a live session it stays set under every
\* later step as long as the session lives, and every win32_process_events
\* call made on the session from then on returns 1.
C5_CloseSticks ==
  [][\A p \in DOMAIN disp :
       (disp[p].shouldClose = 1 /\ p \in DOMAIN disp') =>
         /\ disp'[p].shouldClose = 1
         /\ (ret'.op = "process_events" /\ ret'.s = p) => ret'.val = 1]_vars

\* the close flag of a session was set by a close notification, and a later
\* win32_process_events call that found nothing pending returned 1
C5_Witness ==
  \E p \in DOMAIN disp :
    /\ disp[p].shouldClose = 1
    /\ CloseGenerated(p)
    /\ ret.op = "process_events" /\ ret.s = p
    /\ ret.before = << >>
    /\ ret.val = 1

RECURSIVE PostedBy(_)
\* the messages posted while the messages of q are handled: the character
\* message of a key-down message, and the quit message of a WM_DESTROY that
\* reaches a window procedure
PostedBy(q) ==
  IF q = << >> THEN << >>
  ELSE LET m == Head(q)
       IN (CASE m.message = "WM_KEYDOWN" -> <<[m EXCEPT !.message = "WM_CHAR"]>>
             [] m.message = "WM_DESTROY" /\ m.hwnd \in windows -> <<QuitMessage>>
             [] OTHER -> << >>)
          \o PostedBy(Tail(q))

\* C6 as claimed: when win32_process_events returns, no pending message is
\* left, also when a quit message was among them.
C6_AsClaimed ==
  (ret.op = "process_events" /\ ret.s # NULL) => pending = << >>

\* C6, amended: win32_process_events hands the pending messages to the window
\* procedure oldest first until none is left or it retrieves a quit message;
\* a call that met no quit message leaves nothing pending, and a call that met
\* one returns at once and leaves every message queued behind it pending.
C6_Drain ==
  (ret.op = "process_events" /\ ret.s # NULL) =>
    /\ ~ret.quit => pending = << >>
    /\ ret.before \o PostedBy(ret.handed) =
         ret.handed \o (IF ret.quit THEN <<QuitMessage>> \o pending ELSE << >>)
    /\ \A i \in 1..Len(ret.handed) : ret.handed[i].message # "WM_QUIT"

\* a call met a quit message and returned with the message queued behind it
\* still pending
C6_Witness ==
  /\ ret.op = "process_events" /\ ret.s # NULL
  /\ ret.quit
  /\ Len(ret.before) > 1
  /\ pending = Tail(ret.before)

\* C7: win32_process_events returns 1 exactly when a close was requested for
\* the session (the translator generated a Close event for it, or one of its
\* win32_process_events calls retrieved a quit message) and 0 otherwise, and
\* the value is what win32_should_close reports right after the call.
C7_ReturnValue ==
  (ret.op = "process_events" /\ ret.s # NULL) =>
    /\ ret.val \in {0, 1}
    /\ ret.val = win32_should_close(disp[ret.s])
    /\ ret.val = 1 <=> (CloseGenerated(ret.s) \/ quitSeen[ret.s])

\* a call returned 1 for a quit message alone, no close notification before
C7_Witness ==
  /\ ret.op = "process_events" /\ ret.s # NULL
  /\ ret.val = 1
  /\ ret.quit
  /\ ~CloseGenerated(ret.s)
  /\ win32_should_close(disp[ret.s]) = 1

\* C8 as claimed: every close notification delivered to a live session sets
\* shouldClose and stores a Close event for the consumer to pop.
C8_AsClaimed ==
  \A p \in DOMAIN disp :
    \A i \in 1..Len(gen[p].log) :
      gen[p].log[i].event.type = WIN32_EVENT_CLOSE =>
        disp[p].shouldClose = 1 /\ ~gen[p].log[i].dropped

\* the Close events of the sequence q of events
CloseEvents(q) ==
  LET close(e) == e.type = WIN32_EVENT_CLOSE IN SelectSeq(q, close)

\* C8, amended: a close notification delivered to a live session sets
\* shouldClose in every queue state; its Close event is stored, and later
\* popped, unless the queue holds 63 events, in which case the event is lost.
C8_Close ==
  \A p \in DOMAIN disp :
    /\ CloseGenerated(p) => disp[p].shouldClose = 1
    /\ \A i \in 1..Len(gen[p].log) :
         gen[p].log[i].event.type = WIN32_EVENT_CLOSE =>
           (gen[p].log[i].dropped <=> gen[p].log[i].full)
    /\ CloseEvents(del[p]) \o CloseEvents(QueueContents(disp[p]))
         = CloseEvents(KeptEvents(p))

\* a close notification met a full queue: the flag is set, the event is lost
C8_Witness ==
  \E p \in DOMAIN disp :
    /\ disp[p].shouldClose = 1
    /\ \A i \in 1..Len(gen[p].log) :
         gen[p].log[i].event.type = WIN32_EVENT_CLOSE => gen[p].log[i].dropped
    /\ CloseGenerated(p)
    /\ CloseEvents(del[p]) = << >>
    /\ ~win32_has_events(disp[p])

\* C9 as claimed: win32_create_window returns NULL whenever the window, the
\* memory DC or the DIB section cannot be created, and a session it returns
\* has its pixel buffer.
C9_AsClaimed ==
  ret.op = "create_window" =>
    /\ (~ret.outcome.hwnd \/ ~ret.outcome.memDC \/ ~ret.outcome.dib) => ret.val = NULL
    /\ ret.val # NULL => disp[ret.val].pixels # NULL

\* the public operations that take a session
SessionOps ==
  {"process_events", "has_events", "pop_event", "blit_pixels", "get_time",
   "get_mouse", "should_close", "destroy_window"}

\* C10 as claimed: a public operation called with a null session returns a
\* sentinel and the process takes no fault.
C10_AsClaimed ==
  (ret.op \in SessionOps /\ ret.s = NULL) =>
    ~crashed /\ ret.val \notin {"fault", "garbage"}

\* a win32_blit_pixels call with a null session or a null pixel pointer returned
NullBlitReturned ==
  ret.op = "blit_pixels" /\ (ret.s = NULL \/ ret.nopixels)

\* C11: win32_blit_pixels called with a null pixel buffer or a null session
\* changes nothing: the surface, the visible window, the event queue, the
\* mouse state and shouldClose of every session stay as they were, no message
\* is taken or posted, and the process takes no fault.
C11_NullBlit ==
  [][NullBlitReturned' =>
       /\ UNCHANGED <<disp, screen, pending, heap, g_display, windows>>
       /\ ~crashed'
       /\ ret'.val = NULL]_vars

\* a null pixel pointer was passed for a live session whose surface and window
\* show a frame blitted before, and both still show it
C11_Witness ==
  /\ NullBlitReturned
  /\ ret.s \in DOMAIN disp
  /\ disp[ret.s].bits \in Frames(disp[ret.s].width, disp[ret.s].height)
  /\ screen[ret.s] = disp[ret.s].bits
  /\ ~crashed

\* a win32_blit_pixels call with a session and a frame returned
FrameBlitReturned == ret.op = "blit_pixels" /\ ret.s # NULL /\ ~ret.nopixels

\* C12 as claimed: for a live session and a buffer of width * height * 4
\* bytes, right after win32_blit_pixels the off-screen surface equals the
\* buffer byte for byte, and the event queue, the mouse state and shouldClose
\* are as before the call.
C12_AsClaimed ==
  [][FrameBlitReturned' =>
       LET p == ret'.s IN
       /\ ~crashed'
       /\ disp'[p].bits \in Frames(disp[p].width, disp[p].height)
       /\ disp' = [disp EXCEPT ![p].bits = disp'[p].bits]]_vars

\* the release calls and the resource each one releases, in the order the
\* specification of win32_destroy_window gives: surface bitmap, off-screen
\* drawing context, device context, window
ReleaseOrder(d) ==
  <<[call |-> "DeleteObject", resource |-> d.bitmap],
    [call |-> "DeleteDC", resource |-> d.memDC],
    [call |-> "ReleaseDC", resource |-> d.hdc],
    [call |-> "DestroyWindow", resource |-> d.hwnd]>>

\* the calls of ReleaseOrder(d) whose resource was created
ReleasesDue(d) ==
  LET created(r) == r.resource # NULL
      due == SelectSeq(ReleaseOrder(d), created)
  IN [i \in 1..Len(due) |-> due[i].call]

\* C13: win32_destroy_window releases the resources of the session in the
\* order bitmap, memory DC, window DC, window; a resource that was never
\* created is skipped and the call takes no fault; the record is freed once,
\* after the last release, and the session is gone.
C13_ReleaseOrder ==
  [][(ret'.op = "destroy_window" /\ ret'.s # NULL) =>
       LET p == ret'.s
           calls == ret'.released
       IN /\ p \in DOMAIN disp
          /\ calls = ReleasesDue(disp[p]) \o <<"free">>
          /\ \A i \in 1..Len(calls) : calls[i] = "free" <=> i = Len(calls)
          /\ ~crashed'
          /\ heap'[p] = "freed" /\ p \notin DOMAIN disp'
          /\ disp[p].hwnd \notin windows']_vars

\* a session whose creation got no DIB section was destroyed: the three
\* resources it had were released in order, then the record was freed
C13_Witness ==
  /\ ret.op = "destroy_window" /\ ret.s # NULL
  /\ ret.released = <<"DeleteDC", "ReleaseDC", "DestroyWindow", "free">>
  /\ heap[ret.s] = "freed"
  /\ ~crashed

\* the pointer buttons of the specification: the id an event carries for the
\* button and the bit of the button in the mask
ButtonIds == [left |-> 1, middle |-> 2, right |-> 3]
ButtonBits == [left |-> 1, middle |-> 2, right |-> 4]

\* the button and the event type a button message stands for
ButtonMessages ==
  [WM_LBUTTONDOWN |-> <<"left", WIN32_EVENT_MOUSE_PRESS>>,
   WM_MBUTTONDOWN |-> <<"middle", WIN32_EVENT_MOUSE_PRESS>>,
   WM_RBUTTONDOWN |-> <<"right", WIN32_EVENT_MOUSE_PRESS>>,
   WM_LBUTTONUP |-> <<"left", WIN32_EVENT_MOUSE_RELEASE>>,
   WM_MBUTTONUP |-> <<"middle", WIN32_EVENT_MOUSE_RELEASE>>,
   WM_RBUTTONUP |-> <<"right", WIN32_EVENT_MOUSE_RELEASE>>]

\* the press and release events generated for button b of session p
ButtonLog(p, b) ==
  LET ofButton(e) ==
        /\ e.event.type \in {WIN32_EVENT_MOUSE_PRESS, WIN32_EVENT_MOUSE_RELEASE}
        /\ e.event.button = ButtonIds[b]
  IN SelectSeq(gen[p].log, ofButton)

\* the most recent press or release notification for button b was a press
LastWasPress(p, b) ==
  LET q == ButtonLog(p, b)
  IN q # << >> /\ q[Len(q)].event.type = WIN32_EVENT_MOUSE_PRESS

\* the bit of button b is set in the mask
BitSet(mask, b) == (mask \div ButtonBits[b]) % 2 = 1

\* C14: the button mask of a live session has the bit of button b set exactly
\* when the most recent press or release notification for b was a press,
\* dropped events included, and holds no other bit; the event a button
\* message generates carries the type, the id (1 left, 2 middle, 3 right) and
\* the position of the message, and is the newest stored event unless it was
\* dropped.
C14_ButtonMask ==
  \A p \in DOMAIN disp :
    /\ \A b \in DOMAIN ButtonBits :
         BitSet(disp[p].mouseButtons, b) <=> LastWasPress(p, b)
    /\ disp[p].mouseButtons \in 0..7
    /\ (ret.op = "window_proc" /\ ret.msg.message \in DOMAIN ButtonMessages
          /\ g_display = p) =>
         LET button == ButtonMessages[ret.msg.message]
             last == gen[p].log[Len(gen[p].log)]
             e == last.event
         IN /\ e.type = button[2]
            /\ e.button = ButtonIds[button[1]]
            /\ e.mouseX = LOWORD(ret.msg.lParam) /\ e.mouseY = HIWORD(ret.msg.lParam)
            /\ ~last.dropped =>
                 disp[p].events[(disp[p].eventTail + QueueSlots - 1) % QueueSlots] = e

\* the press of the right button met a full queue and its event was lost; the
\* mask has the bit of the right button, and the left button, released after
\* its press, has its bit clear
C14_Witness ==
  \E p \in DOMAIN disp :
    LET q == ButtonLog(p, "right")
    IN /\ q # << >>
       /\ q[Len(q)].dropped /\ q[Len(q)].event.type = WIN32_EVENT_MOUSE_PRESS
       /\ BitSet(disp[p].mouseButtons, "right")
       /\ Len(ButtonLog(p, "left")) >= 2
       /\ ~BitSet(disp[p].mouseButtons, "left")

\* the Resize events generated for session p whose size is not the size the
\* session was created with
ResizedTo(p) ==
  {<<gen[p].log[i].event.width, gen[p].log[i].event.height>> :
     i \in {j \in 1..Len(gen[p].log) :
              /\ gen[p].log[j].event.type = WIN32_EVENT_RESIZE
              /\ gen[p].log[j].event.width # disp[p].width}}

\* C15: a size-changed notification only enqueues a Resize event with the new
\* width and height; width and height of a session and the size of its
\* surface are the ones of its creation in every state, and a blit copies
\* width * height * 4 bytes of these, whatever Resize events came before.
C15_SizeFixed ==
  [][\A p \in DOMAIN disp' :
       LET d == disp'[p] IN
       /\ <<d.width, d.height>> \in Dims
       /\ ByteCount(d.bits) = d.width * d.height * 4
       /\ p \in DOMAIN disp =>
            /\ d.width = disp[p].width /\ d.height = disp[p].height
            /\ d.bitmap = disp[p].bitmap /\ d.pixels = disp[p].pixels
       /\ (FrameBlitReturned' /\ ret'.s = p) => d.bits \in Frames(d.width, d.height)
       /\ (ret'.op = "process_events" /\ ret'.s = p /\ Len(ret'.handed) = 1
            /\ ret'.handed[1].message = "WM_SIZE" /\ ~ret'.quit) =>
            LET size == ret'.handed[1].lParam
                e == [ZeroEvent EXCEPT !.type = WIN32_EVENT_RESIZE,
                                       !.width = LOWORD(size), !.height = HIWORD(size)]
            IN /\ d = [disp[p] EXCEPT !.events = d.events, !.eventTail = d.eventTail]
               /\ QueueContents(d) = Append(QueueContents(disp[p]), e)]_vars

\* a Resize event of another size than the session's was generated, and the
\* blit that followed filled the surface of the creation-time size
C15_Witness ==
  /\ FrameBlitReturned
  /\ ret.s \in DOMAIN disp
  /\ Resized \in ResizedTo(ret.s)
  /\ disp[ret.s].bits \in Frames(disp[ret.s].width, disp[ret.s].height)
  /\ screen[ret.s] = disp[ret.s].bits

\* the MouseMove event at (10, 20)
MovedTo10x20 ==
  [ZeroEvent EXCEPT !.type = WIN32_EVENT_MOUSE_MOVE, !.mouseX = 10, !.mouseY = 20]

\* the first notification after the creation of the 320 x 240 session p, the
\* pointer moved to (10, 20), was delivered, and nothing was popped so far
MoveDelivered(p) ==
  /\ disp[p].width = 320 /\ disp[p].height = 240
  /\ nposts = 1
  /\ ret.op = "window_proc"
  /\ ret.msg = Msg(disp[p].hwnd, "WM_MOUSEMOVE", 0, MAKELPARAM(10, 20))
  /\ del[p] = << >>

\* C16 as claimed: after the creation of a 320 x 240 session and a
\* pointer-moved-to-(10, 20) notification, the next win32_pop_event returns a
\* MouseMove event at (10, 20) and win32_get_mouse returns (10, 20); after a
\* close notification win32_process_events returns 1, and
\* win32_destroy_window completes without a fault.
C16_AsClaimed ==
  /\ \A p \in DOMAIN disp :
       /\ MoveDelivered(p) =>
            /\ win32_pop_event(disp[p]).val = 1
            /\ win32_pop_event(disp[p]).event = MovedTo10x20
            /\ win32_get_mouse(disp[p]) = <<10, 20>>
       /\ (ret.op = "process_events" /\ ret.s = p /\ CloseGenerated(p)) => ret.val = 1
  /\ (ret.op = "destroy_window" /\ ret.s # NULL) =>
       ~crashed /\ heap[ret.s] = "freed"

\* an event the translator can push: a key press
ProbeEvent == [ZeroEvent EXCEPT !.type = WIN32_EVENT_KEY_PRESS, !.key = 27]

\* C17: in every state of a live session eventHead and eventTail are in
\* 0..63; the queue is empty (win32_has_events is 0, win32_pop_event returns 0
\* and changes nothing) exactly when eventHead = eventTail, and otherwise
\* the pop returns 1 with the event at the head; a push is dropped, the
\* session left as it was, exactly when (eventTail + 1) % 64 = eventHead, and
\* otherwise it stores the event at the tail; never more than 63 events are
\* stored.
C17_Ring ==
  \A p \in DOMAIN disp :
    LET d == disp[p]
        pop == win32_pop_event(d)
        push == win32_push_event(d, ProbeEvent)
        empty == d.eventHead = d.eventTail
        full == (d.eventTail + 1) % QueueSlots = d.eventHead
    IN /\ d.eventHead \in 0..(QueueSlots - 1)
       /\ d.eventTail \in 0..(QueueSlots - 1)
       /\ ~win32_has_events(d) <=> empty
       /\ pop.val = 0 <=> empty
       /\ empty => pop.disp = d
       /\ ~empty => /\ pop.val = 1
                     /\ pop.event = d.events[d.eventHead]
                     /\ Stored(pop.disp) = Stored(d) - 1
       /\ push = d <=> full
       /\ ~full => /\ Stored(push) = Stored(d) + 1
                    /\ QueueContents(push) = Append(QueueContents(d), ProbeEvent)
                    /\ push.eventHead = d.eventHead
       /\ Stored(d) <= QueueSlots - 1
       /\ Stored(d) = QueueSlots - 1 <=> full
       /\ \A i \in 1..Len(gen[p].log) : gen[p].log[i].dropped <=> gen[p].log[i].full

\* the ring went around: the tail is behind the head, 63 events are stored,
\* and the event generated last was dropped
C17_Witness ==
  \E p \in DOMAIN disp :
    /\ disp[p].eventTail < disp[p].eventHead
    /\ (disp[p].eventTail + 1) % QueueSlots = disp[p].eventHead
    /\ Stored(disp[p]) = QueueSlots - 1
    /\ gen[p].log[Len(gen[p].log)].dropped
    /\ Len(del[p]) > 0

\* C18: every win32_process_events call returns: with finitely many messages
\* pending at its start, the loop ends after finitely many iterations, also
\* when the event queue of the session is full and when close and destroy
\* messages are among the pending ones.
C18_Terminates == (ret.op = "pumping") ~> (ret.op = "process_events")

\* a call that started with a close and a destroy message pending, and with a
\* full event queue, has returned
C18_Witness ==
  /\ ret.op = "process_events"
  /\ ret.s \in DOMAIN disp
  /\ \E i, j \in 1..Len(ret.before) :
       ret.before[i].message = "WM_CLOSE" /\ ret.before[j].message = "WM_DESTROY"
  /\ Stored(disp[ret.s]) = QueueSlots - 1
  /\ \E i \in 1..Len(gen[ret.s].log) :
       gen[ret.s].log[i].event.type = WIN32_EVENT_CLOSE /\ gen[ret.s].log[i].dropped

\* C19: over every sequence of creations (successful or failed), destructions
\* and notifications, g_display is null or the address of a session that was
\* created and not destroyed, so that the window procedure never works on a
\* freed session, and a notification that arrives while g_display is null
\* stores no event and changes no session and no window.
C19_GlobalValid ==
  [][/\ g_display' = NULL \/ (heap'[g_display'] = "live" /\ g_display' \in DOMAIN disp')
     /\ DOMAIN disp' = {p \in Ptr : heap'[p] = "live"}
     /\ \A p \in Ptr : heap[p] = "freed" => heap'[p] = "freed"
     /\ (ret'.op = "create_window" /\ ret'.val = NULL) => g_display' = g_display
     /\ (ret'.op = "window_proc" /\ g_display = NULL) =>
          disp' = disp /\ gen' = gen /\ screen' = screen]_vars

\* a notification for the window of a live session arrived after another
\* session was destroyed, g_display being null
C19_Witness ==
  /\ ret.op = "window_proc"
  /\ g_display = NULL
  /\ \E p \in DOMAIN disp : ret.msg.hwnd = disp[p].hwnd
  /\ \E q \in Ptr : heap[q] = "freed"
  /\ ret.msg.message \in EventMessages

\* C20 as claimed: also with two live sessions, the notification just sent to
\* the window of a live session was translated into that session (its newest
\* generated event is the event of the message), and every event generated
\* for a session, with the mouse and close updates that go with it, came from
\* a message for the session's own window.
C20_AsClaimed ==
  \A p \in DOMAIN disp :
    /\ \A i \in 1..Len(gen[p].log) : gen[p].log[i].hwnd = disp[p].hwnd
    /\ (ret.op = "window_proc" /\ ret.msg.hwnd = disp[p].hwnd
          /\ ret.msg.message \in EventMessages) =>
         /\ gen[p].log # << >>
         /\ gen[p].log[Len(gen[p].log)].event = WndProcEvent(ret.msg)

====
